---- MODULE Spec2Model ----
(***************************************************************************)
(* The admin subscription controller of nutri-backend                      *)
(* (src/src/controller/admin_subscription_controller.go) as a state        *)
(* machine: one action per HTTP handler.  The persistence layer            *)
(* (service.SubscriptionService) is modelled as an in-memory store of      *)
(* subscriptions, plans and transactions.                                  *)
(***************************************************************************)
EXTENDS Integers, Sequences, FiniteSets, TLC

\* ---------------------------------------------------------------- bounds
\* Number of stored subscriptions / transactions (UUID values 1..MaxIds);
\* UUID value MaxIds+1 is well-formed but never stored.
MaxIds == 2
\* The limit query parameter ranges over -MaxLimit..MaxLimit.
MaxLimit == 2
\* The page query parameter ranges over 1..MaxPage.
MaxPage == 2

\* --------------------------------------------------- program constants
StatusOK == 200
StatusBadRequest == 400
StatusNotFound == 404
StatusInternalServerError == 500
DefaultPage == 1
DefaultLimit == 10

\* ------------------------------------------------------------- UUIDs
UUIDs == 1..(MaxIds + 1)
StoredIds == 1..MaxIds
\* The plan table holds one plan.
PlanIds == {1}

\* A path parameter is a text; it is represented by its shape and, when the
\* shape is one uuid.Parse accepts, by the UUID value it spells.
\*   empty     ""                                       (no value)
\*   canonical xxxxxxxx-xxxx-xxxx-xxxx-xxxxxxxxxxxx     (36 chars)
\*   urn       urn:uuid:xxxxxxxx-...                    (45 chars)
\*   garbage   a text of another length
\*   badhex    36 chars, a non-hex digit or a misplaced '-'
ValidForms == {"canonical", "urn"}
InvalidForms == {"garbage", "badhex"}
Params ==
  {[form |-> "empty", key |-> 0]}
    \cup [form : ValidForms, key : UUIDs]
    \cup [form : InvalidForms, key : {0}]
NoParam == [form |-> "empty", key |-> 0]

\* uuid.Parse: the UUID a text spells, or an error.
uuidParse(p) ==
  IF p.form \in ValidForms
    THEN [ok |-> TRUE, id |-> p.key]
    ELSE [ok |-> FALSE, id |-> 0]

\* UUID.String(): always the canonical 36-char form.
uuidString(k) == [form |-> "canonical", key |-> k]

\* ctx.QueryInt(key, default): the default when the parameter is absent or is
\* not an integer.
QueryInt(q, def) == IF q.kind = "int" THEN q.v ELSE def

\* Go's integer division truncates toward zero (the divisor is not 0 here).
Abs(n) == IF n < 0 THEN -n ELSE n
GoDiv(a, b) ==
  IF (a >= 0) = (b > 0)
    THEN Abs(a) \div Abs(b)
    ELSE -(Abs(a) \div Abs(b))

\* fmt.Sprintf("%d", n)
Digit(d) ==
  CASE d = 0 -> "0" [] d = 1 -> "1" [] d = 2 -> "2" [] d = 3 -> "3"
    [] d = 4 -> "4" [] d = 5 -> "5" [] d = 6 -> "6" [] d = 7 -> "7"
    [] d = 8 -> "8" [] OTHER -> "9"
RECURSIVE Decimal(_)
Decimal(n) ==
  IF n < 0 THEN "-" \o Decimal(-n)
  ELSE IF n < 10 THEN Digit(n)
  ELSE Decimal(n \div 10) \o Digit(n % 10)

formatCurrency(amount) == "Rp " \o Decimal(amount)

\* ------------------------------------------------- stored feature flags
\* plan.Features is a text column.  The texts of the model:
FeatBools == "{\"scan\":true}"
FeatNull == "null"
FeatNullMember == "{\"scan\":null}"
FeatNonBool == "{\"scan\":1}"
FeatNotJSON == "{scan"
FeatureTexts == {FeatBools, FeatNull, FeatNullMember, FeatNonBool, FeatNotJSON}

\* json.Unmarshal([]byte(text), &features) with features map[string]bool.
\* JSON null leaves the map nil and a null member leaves the zero value
\* (false), both without an error; a non-boolean member and a text that is
\* not JSON are errors.
jsonUnmarshalFeatures(text) ==
  CASE text = FeatBools -> [ok |-> TRUE, isNil |-> FALSE, entries |-> {<<"scan", TRUE>>}]
    [] text = FeatNull -> [ok |-> TRUE, isNil |-> TRUE, entries |-> {}]
    [] text = FeatNullMember -> [ok |-> TRUE, isNil |-> FALSE, entries |-> {<<"scan", FALSE>>}]
    [] OTHER -> [ok |-> FALSE, isNil |-> TRUE, entries |-> {}]

\* ------------------------------------------------------------ the store
Statuses == {"pending", "active"}

NoSub == [present |-> FALSE, status |-> "", plan |-> 0]
NoTx == [present |-> FALSE, sub |-> 0, amount |-> 0]
NoPlan == [present |-> FALSE, name |-> "", price |-> 0, features |-> "", isActive |-> FALSE]

VARIABLES
  store,   \* [subs, plans, txs]: the database tables
  pre,     \* the store as it was when the last request arrived
  last,    \* the last request and what its handler did
  deleted, \* ids whose DELETE was answered 200
  paid     \* the last successful payment-status update not yet overwritten

vars == <<store, pre, last, deleted, paid>>

\* ------------------------------------------------------------- helpers
Min(a, b) == IF a < b THEN a ELSE b

RECURSIVE SortedSeq(_)
SortedSeq(S) ==
  IF S = {} THEN <<>>
  ELSE LET m == CHOOSE x \in S : \A y \in S : x <= y
       IN <<m>> \o SortedSeq(S \ {m})

MapSeq(s, F(_)) == [i \in 1..Len(s) |-> F(s[i])]

SubOf(st, k) == [id |-> k, status |-> st.subs[k].status, plan |-> st.subs[k].plan]
TxOf(st, k) == [id |-> k, sub |-> st.txs[k].sub, amount |-> st.txs[k].amount]
PlanOf(st, k) ==
  [id |-> k, name |-> st.plans[k].name, price |-> st.plans[k].price,
   features |-> st.plans[k].features, isActive |-> st.plans[k].isActive]

\* ------------------------------------------- service.SubscriptionService
\* Every service method returns [ok, code, message, val, total, store]:
\* an error (ok = FALSE, with its HTTP code) or a value, and the store after
\* the call.
SvcOk(st, val, total) ==
  [ok |-> TRUE, code |-> 0, message |-> "", val |-> val, total |-> total, store |-> st]
SvcErr(st, code, message) ==
  [ok |-> FALSE, code |-> code, message |-> message, val |-> <<>>, total |-> 0, store |-> st]

\* One page of a list: records (page-1)*limit+1 .. page*limit.
PageOf(s, page, limit) ==
  LET off == IF (page - 1) * limit > 0 THEN (page - 1) * limit ELSE 0
  IN IF limit <= 0 THEN <<>> ELSE SubSeq(s, off + 1, Min(off + limit, Len(s)))

SvcGetAllUserSubscriptions(st, query) ==
  LET ids == {k \in UUIDs : st.subs[k].present
                /\ (query.Status = "" \/ st.subs[k].status = query.Status)}
      all == MapSeq(SortedSeq(ids), LAMBDA k : SubOf(st, k))
  IN SvcOk(st, PageOf(all, query.Page, query.Limit), Cardinality(ids))

SvcGetUserSubscriptionByID(st, id) ==
  IF id \in UUIDs /\ st.subs[id].present
    THEN SvcOk(st, SubOf(st, id), 0)
    ELSE SvcErr(st, StatusNotFound, "Subscription not found")

SvcGetAllSubscriptionPlansWithUsers(st, withUsers) ==
  LET users(k) == SortedSeq({s \in UUIDs : st.subs[s].present /\ st.subs[s].plan = k})
      one(k) == [ID |-> k, Name |-> st.plans[k].name, Price |-> st.plans[k].price,
                 PriceFormatted |-> formatCurrency(st.plans[k].price),
                 Features |-> st.plans[k].features, IsActive |-> st.plans[k].isActive,
                 Users |-> IF withUsers THEN users(k) ELSE <<>>,
                 UserCount |-> Len(users(k))]
  IN SvcOk(st, MapSeq(SortedSeq({k \in UUIDs : st.plans[k].present}), one), 0)

SvcUpdateUserSubscription(st, id, req) ==
  IF ~(id \in UUIDs /\ st.subs[id].present)
    THEN SvcErr(st, StatusNotFound, "Subscription not found")
  ELSE IF req.plan # 0 /\ ~(req.plan \in UUIDs /\ st.plans[req.plan].present)
    THEN SvcErr(st, StatusNotFound, "Subscription plan not found")
  ELSE LET new == [st.subs[id] EXCEPT
                     !.status = IF req.status = "" THEN @ ELSE req.status,
                     !.plan = IF req.plan = 0 THEN @ ELSE req.plan]
           st2 == [st EXCEPT !.subs[id] = new]
       IN SvcOk(st2, SubOf(st2, id), 0)

\* Mutant: a soft delete that the lookup by id still finds.
SvcDeleteUserSubscription_Soft(st, id) ==
  IF id \in UUIDs /\ st.subs[id].present
    THEN SvcOk([st EXCEPT !.subs[id].status = "deleted"], <<>>, 0)
    ELSE SvcErr(st, StatusNotFound, "Subscription not found")

SvcDeleteUserSubscription(st, id) ==
  IF id \in UUIDs /\ st.subs[id].present
    THEN SvcOk([st EXCEPT !.subs[id] = NoSub], <<>>, 0)
    ELSE SvcErr(st, StatusNotFound, "Subscription not found")

SvcGetTransactionsBySubscriptionID(st, id) ==
  IF id \in UUIDs /\ st.subs[id].present
    THEN SvcOk(st, MapSeq(SortedSeq({k \in UUIDs : st.txs[k].present /\ st.txs[k].sub = id}),
                          LAMBDA k : TxOf(st, k)), 0)
    ELSE SvcErr(st, StatusNotFound, "Subscription not found")

\* Mutant: the update is not restricted to the subscription's row.
SvcUpdatePaymentStatus_AllRows(st, id, status) ==
  IF id \in UUIDs /\ st.subs[id].present
    THEN LET st2 == [st EXCEPT !.subs = [k \in UUIDs |->
                       IF st.subs[k].present THEN [st.subs[k] EXCEPT !.status = status]
                       ELSE st.subs[k]]]
         IN SvcOk(st2, SubOf(st2, id), 0)
    ELSE SvcErr(st, StatusNotFound, "Subscription not found")

SvcUpdatePaymentStatus(st, id, status) ==
  IF id \in UUIDs /\ st.subs[id].present
    THEN LET st2 == [st EXCEPT !.subs[id].status = status]
         IN SvcOk(st2, SubOf(st2, id), 0)
    ELSE SvcErr(st, StatusNotFound, "Subscription not found")

SvcGetAllTransactions(st, page, limit) ==
  LET ids == {k \in UUIDs : st.txs[k].present}
      all == MapSeq(SortedSeq(ids), LAMBDA k : TxOf(st, k))
  IN SvcOk(st, PageOf(all, page, limit), Cardinality(ids))

SvcGetTransactionByID(st, id) ==
  IF id \in UUIDs /\ st.txs[id].present
    THEN SvcOk(st, TxOf(st, id), 0)
    ELSE SvcErr(st, StatusNotFound, "Transaction not found")

SvcGetSubscriptionPlanByID(st, id) ==
  IF id \in UUIDs /\ st.plans[id].present
    THEN SvcOk(st, PlanOf(st, id), 0)
    ELSE SvcErr(st, StatusNotFound, "Subscription plan not found")

\* The update is saved before the plan is returned; a request sets the price
\* (0: field absent) and the feature flags (marshalled from a map of booleans).
SvcUpdateSubscriptionPlan(st, id, req) ==
  IF id \in UUIDs /\ st.plans[id].present
    THEN LET new == [st.plans[id] EXCEPT
                       !.price = IF req.price = 0 THEN @ ELSE req.price,
                       !.features = IF req.setFeatures THEN FeatBools ELSE @]
             st2 == [st EXCEPT !.plans[id] = new]
         IN SvcOk(st2, PlanOf(st2, id), 0)
    ELSE SvcErr(st, StatusNotFound, "Subscription plan not found")

\* ------------------------------------------------------------ responses
\* What a handler leaves behind: the response, the store, and the calls it
\* made to the outside (service, activity log, response writer) in order.
JSON(status, message, data) ==
  [kind |-> "json", status |-> status, envelope |-> "success", message |-> message,
   data |-> data, page |-> 0, limit |-> 0, totalPages |-> 0, totalResults |-> 0]
JSONPaginated(status, message, data, page, limit, totalPages, totalResults) ==
  [kind |-> "json", status |-> status, envelope |-> "success", message |-> message,
   data |-> data, page |-> page, limit |-> limit, totalPages |-> totalPages,
   totalResults |-> totalResults]
\* fiber.NewError(code, message), and a service error returned as is.
NewError(code, message) ==
  [kind |-> "error", status |-> code, envelope |-> "error", message |-> message,
   data |-> <<>>, page |-> 0, limit |-> 0, totalPages |-> 0, totalResults |-> 0]
\* A run-time panic (integer divide by zero): the handler never returns.
Panic ==
  [kind |-> "panic", status |-> 0, envelope |-> "", message |-> "integer divide by zero",
   data |-> <<>>, page |-> 0, limit |-> 0, totalPages |-> 0, totalResults |-> 0]

EvService(name) ==
  [ev |-> "service", name |-> name, userID |-> "", resourceID |-> NoParam, status |-> ""]
EvLog(userID, action, resourceID, status) ==
  [ev |-> "log", name |-> action, userID |-> userID, resourceID |-> resourceID,
   status |-> status]
EvRespond ==
  [ev |-> "respond", name |-> "", userID |-> "", resourceID |-> NoParam, status |-> ""]

Done(resp, st, trace) == [resp |-> resp, store |-> st, trace |-> trace]

\* ctx.BodyParser(req): an error for a body that does not parse.
BodyParser(body) == [ok |-> body.kind = "json", req |-> body]

\* ------------------------------------------------------------- handlers
\* Mutant: the page count rounded up, ceil(totalResults / limit).
TotalPages_Ceil(totalResults, limit) == GoDiv(totalResults + limit - 1, limit)

\* totalResults/int64(limit) + 1, which panics when limit is 0.
TotalPages(totalResults, limit) == GoDiv(totalResults, limit) + 1

GetAllUserSubscriptions(st, c) ==
  LET query == [Page |-> QueryInt(c.page, DefaultPage),
                Limit |-> QueryInt(c.limit, DefaultLimit),
                Status |-> c.status]
      r == SvcGetAllUserSubscriptions(st, query)
      called == <<EvService("GetAllUserSubscriptions")>>
  IN IF ~r.ok THEN Done(NewError(r.code, r.message), r.store, called)
     ELSE IF query.Limit = 0 THEN Done(Panic, r.store, called)
     ELSE Done(JSONPaginated(StatusOK, "User subscriptions retrieved successfully",
                             r.val, query.Page, query.Limit,
                             TotalPages(r.total, query.Limit), r.total),
               r.store, called \o <<EvRespond>>)

GetUserSubscriptionDetails(st, c) ==
  IF c.id.form = "empty"
    THEN Done(NewError(StatusBadRequest, "Subscription ID is required"), st, <<>>)
  ELSE LET subscriptionID == uuidParse(c.id)
       IN IF ~subscriptionID.ok
            THEN Done(NewError(StatusBadRequest, "Invalid subscription ID format"), st, <<>>)
          ELSE LET r == SvcGetUserSubscriptionByID(st, subscriptionID.id)
                   called == <<EvService("GetUserSubscriptionByID")>>
               IN IF ~r.ok THEN Done(NewError(r.code, r.message), r.store, called)
                  ELSE Done(JSON(StatusOK, "User subscription details retrieved successfully",
                                 r.val),
                            r.store, called \o <<EvRespond>>)

GetAllSubscriptionPlans(st, c) ==
  LET r == SvcGetAllSubscriptionPlansWithUsers(st, c.withUsers)
      called == <<EvService("GetAllSubscriptionPlansWithUsers")>>
      conv(plan) == [ID |-> uuidString(plan.ID), Name |-> plan.Name, Price |-> plan.Price,
                     PriceFormatted |-> plan.PriceFormatted, Features |-> plan.Features,
                     IsActive |-> plan.IsActive, Users |-> plan.Users,
                     UserCount |-> plan.UserCount]
  IN IF ~r.ok THEN Done(NewError(r.code, r.message), r.store, called)
     ELSE Done(JSON(StatusOK, "All subscription plans retrieved successfully",
                    MapSeq(r.val, conv)),
               r.store, called \o <<EvRespond>>)

\* Mutant: the BodyParser error is looked at only after the service call.
UpdateUserSubscription_ServiceFirst(st, c) ==
  IF c.id.form = "empty"
    THEN Done(NewError(StatusBadRequest, "Subscription ID is required"), st, <<>>)
  ELSE LET subscriptionID == uuidParse(c.id)
           parsed == BodyParser(c.body)
       IN IF ~subscriptionID.ok
            THEN Done(NewError(StatusBadRequest, "Invalid subscription ID format"), st, <<>>)
          ELSE LET r == SvcUpdateUserSubscription(st, subscriptionID.id, parsed.req)
                   called == <<EvService("UpdateUserSubscription")>>
               IN IF ~parsed.ok
                    THEN Done(NewError(StatusBadRequest, "Invalid request body"),
                              r.store, called)
                  ELSE IF ~r.ok THEN Done(NewError(r.code, r.message), r.store, called)
                  ELSE Done(JSON(StatusOK, "User subscription updated successfully", r.val),
                            r.store, called \o <<EvRespond>>)


UpdateUserSubscription(st, c) ==
  IF c.id.form = "empty"
    THEN Done(NewError(StatusBadRequest, "Subscription ID is required"), st, <<>>)
  ELSE LET subscriptionID == uuidParse(c.id)
           parsed == BodyParser(c.body)
       IN IF ~subscriptionID.ok
            THEN Done(NewError(StatusBadRequest, "Invalid subscription ID format"), st, <<>>)
          ELSE IF ~parsed.ok
            THEN Done(NewError(StatusBadRequest, "Invalid request body"), st, <<>>)
          ELSE LET r == SvcUpdateUserSubscription(st, subscriptionID.id, parsed.req)
                   called == <<EvService("UpdateUserSubscription")>>
               IN IF ~r.ok THEN Done(NewError(r.code, r.message), r.store, called)
                  ELSE Done(JSON(StatusOK, "User subscription updated successfully", r.val),
                            r.store, called \o <<EvRespond>>)

DeleteUserSubscription(st, c) ==
  IF c.id.form = "empty"
    THEN Done(NewError(StatusBadRequest, "Subscription ID is required"), st, <<>>)
  ELSE LET subscriptionID == uuidParse(c.id)
       IN IF ~subscriptionID.ok
            THEN Done(NewError(StatusBadRequest, "Invalid subscription ID format"), st, <<>>)
          ELSE LET r == SvcDeleteUserSubscription(st, subscriptionID.id)
                   called == <<EvService("DeleteUserSubscription")>>
               IN IF ~r.ok THEN Done(NewError(r.code, r.message), r.store, called)
                  ELSE Done(JSON(StatusOK, "User subscription deleted successfully", <<>>),
                            r.store, called \o <<EvRespond>>)

GetTransactionLogs(st, c) ==
  IF c.id.form = "empty"
    THEN Done(NewError(StatusBadRequest, "Subscription ID is required"), st, <<>>)
  ELSE LET subscriptionID == uuidParse(c.id)
       IN IF ~subscriptionID.ok
            THEN Done(NewError(StatusBadRequest, "Invalid subscription ID format"), st, <<>>)
          ELSE LET r == SvcGetTransactionsBySubscriptionID(st, subscriptionID.id)
                   called == <<EvService("GetTransactionsBySubscriptionID")>>
               IN IF ~r.ok THEN Done(NewError(r.code, r.message), r.store, called)
                  ELSE Done(JSON(StatusOK, "Transaction logs retrieved successfully", r.val),
                            r.store, called \o <<EvRespond>>)

\* The admin's id for the activity log: empty unless ctx.Locals("user") holds
\* a *model.User.
AdminID(user) == IF user.kind = "user" THEN user.id ELSE ""

\* Mutant: the activity carries the path parameter as given, not the parsed id.
UpdatePaymentStatus_LogsRawParam(st, c) ==
  IF c.id.form = "empty"
    THEN Done(NewError(StatusBadRequest, "Subscription ID is required"), st, <<>>)
  ELSE LET subscriptionID == uuidParse(c.id)
           parsed == BodyParser(c.body)
       IN IF ~subscriptionID.ok
            THEN Done(NewError(StatusBadRequest, "Invalid subscription ID format"), st, <<>>)
          ELSE IF ~parsed.ok
            THEN Done(NewError(StatusBadRequest, "Invalid request body"), st, <<>>)
          ELSE LET r == SvcUpdatePaymentStatus(st, subscriptionID.id, parsed.req.status)
                   called == <<EvService("UpdatePaymentStatus")>>
                   activity == EvLog(AdminID(c.user), "update_payment_status",
                                     c.id, parsed.req.status)
               IN IF ~r.ok THEN Done(NewError(r.code, r.message), r.store, called)
                  ELSE Done(JSON(StatusOK, "Payment status updated successfully", r.val),
                            r.store, called \o <<activity, EvRespond>>)


UpdatePaymentStatus(st, c) ==
  IF c.id.form = "empty"
    THEN Done(NewError(StatusBadRequest, "Subscription ID is required"), st, <<>>)
  ELSE LET subscriptionID == uuidParse(c.id)
           parsed == BodyParser(c.body)
       IN IF ~subscriptionID.ok
            THEN Done(NewError(StatusBadRequest, "Invalid subscription ID format"), st, <<>>)
          ELSE IF ~parsed.ok
            THEN Done(NewError(StatusBadRequest, "Invalid request body"), st, <<>>)
          ELSE LET r == SvcUpdatePaymentStatus(st, subscriptionID.id, parsed.req.status)
                   called == <<EvService("UpdatePaymentStatus")>>
                   activity == EvLog(AdminID(c.user), "update_payment_status",
                                     uuidString(subscriptionID.id), parsed.req.status)
               IN IF ~r.ok THEN Done(NewError(r.code, r.message), r.store, called)
                  ELSE Done(JSON(StatusOK, "Payment status updated successfully", r.val),
                            r.store, called \o <<activity, EvRespond>>)

GetAllTransactions(st, c) ==
  LET page == QueryInt(c.page, DefaultPage)
      limit == QueryInt(c.limit, DefaultLimit)
      r == SvcGetAllTransactions(st, page, limit)
      called == <<EvService("GetAllTransactions")>>
  IN IF ~r.ok THEN Done(NewError(r.code, r.message), r.store, called)
     ELSE IF limit = 0 THEN Done(Panic, r.store, called)
     ELSE Done(JSONPaginated(StatusOK, "All transaction logs retrieved successfully",
                             r.val, page, limit, TotalPages(r.total, limit), r.total),
               r.store, called \o <<EvRespond>>)

\* Mutant: the subscription lookup is called in place of the transaction lookup.
GetTransactionByID_WrongLookup(st, c) ==
  IF c.id.form = "empty"
    THEN Done(NewError(StatusBadRequest, "Transaction ID is required"), st, <<>>)
  ELSE LET transactionID == uuidParse(c.id)
       IN IF ~transactionID.ok
            THEN Done(NewError(StatusBadRequest, "Invalid transaction ID format"), st, <<>>)
          ELSE LET r == SvcGetUserSubscriptionByID(st, transactionID.id)
                   called == <<EvService("GetTransactionByID")>>
               IN IF ~r.ok THEN Done(NewError(r.code, r.message), r.store, called)
                  ELSE Done(JSON(StatusOK, "Transaction details retrieved successfully",
                                 r.val),
                            r.store, called \o <<EvRespond>>)


GetTransactionByID(st, c) ==
  IF c.id.form = "empty"
    THEN Done(NewError(StatusBadRequest, "Transaction ID is required"), st, <<>>)
  ELSE LET transactionID == uuidParse(c.id)
       IN IF ~transactionID.ok
            THEN Done(NewError(StatusBadRequest, "Invalid transaction ID format"), st, <<>>)
          ELSE LET r == SvcGetTransactionByID(st, transactionID.id)
                   called == <<EvService("GetTransactionByID")>>
               IN IF ~r.ok THEN Done(NewError(r.code, r.message), r.store, called)
                  ELSE Done(JSON(StatusOK, "Transaction details retrieved successfully",
                                 r.val),
                            r.store, called \o <<EvRespond>>)

\* response.SubscriptionPlanResponse built from a plan and its parsed flags.
SubscriptionPlanResponse(plan, features) ==
  [ID |-> uuidString(plan.id), Name |-> plan.name, Price |-> plan.price,
   PriceFormatted |-> formatCurrency(plan.price),
   Features |-> [isNil |-> features.isNil, entries |-> features.entries],
   IsActive |-> plan.isActive]

GetSubscriptionPlanByID(st, c) ==
  IF c.id.form = "empty"
    THEN Done(NewError(StatusBadRequest, "Plan ID is required"), st, <<>>)
  ELSE LET planID == uuidParse(c.id)
       IN IF ~planID.ok
            THEN Done(NewError(StatusBadRequest, "Invalid plan ID format"), st, <<>>)
          ELSE LET r == SvcGetSubscriptionPlanByID(st, planID.id)
                   called == <<EvService("GetSubscriptionPlanByID")>>
               IN IF ~r.ok THEN Done(NewError(r.code, r.message), r.store, called)
                  ELSE LET features == jsonUnmarshalFeatures(r.val.features)
                       IN IF ~features.ok
                            THEN Done(NewError(StatusInternalServerError,
                                               "Error parsing plan features"),
                                      r.store, called)
                          ELSE Done(JSON(StatusOK,
                                         "Subscription plan details retrieved successfully",
                                         SubscriptionPlanResponse(r.val, features)),
                                    r.store, called \o <<EvRespond>>)

\* Mutant: the body is parsed before the plan id is validated.
UpdateSubscriptionPlan_BodyFirst(st, c) ==
  IF c.id.form = "empty"
    THEN Done(NewError(StatusBadRequest, "Plan ID is required"), st, <<>>)
  ELSE LET planID == uuidParse(c.id)
           parsed == BodyParser(c.body)
       IN IF ~parsed.ok
            THEN Done(NewError(StatusBadRequest, "Invalid request body"), st, <<>>)
          ELSE IF ~planID.ok
            THEN Done(NewError(StatusBadRequest, "Invalid plan ID format"), st, <<>>)
          ELSE LET r == SvcUpdateSubscriptionPlan(st, planID.id, parsed.req)
                   called == <<EvService("UpdateSubscriptionPlan")>>
               IN IF ~r.ok THEN Done(NewError(r.code, r.message), r.store, called)
                  ELSE LET features == jsonUnmarshalFeatures(r.val.features)
                       IN IF ~features.ok
                            THEN Done(NewError(StatusInternalServerError,
                                               "Error parsing plan features"),
                                      r.store, called)
                          ELSE Done(JSON(StatusOK, "Subscription plan updated successfully",
                                         SubscriptionPlanResponse(r.val, features)),
                                    r.store, called \o <<EvRespond>>)


UpdateSubscriptionPlan(st, c) ==
  IF c.id.form = "empty"
    THEN Done(NewError(StatusBadRequest, "Plan ID is required"), st, <<>>)
  ELSE LET planID == uuidParse(c.id)
           parsed == BodyParser(c.body)
       IN IF ~planID.ok
            THEN Done(NewError(StatusBadRequest, "Invalid plan ID format"), st, <<>>)
          ELSE IF ~parsed.ok
            THEN Done(NewError(StatusBadRequest, "Invalid request body"), st, <<>>)
          ELSE LET r == SvcUpdateSubscriptionPlan(st, planID.id, parsed.req)
                   called == <<EvService("UpdateSubscriptionPlan")>>
               IN IF ~r.ok THEN Done(NewError(r.code, r.message), r.store, called)
                  ELSE LET features == jsonUnmarshalFeatures(r.val.features)
                       IN IF ~features.ok
                            THEN Done(NewError(StatusInternalServerError,
                                               "Error parsing plan features"),
                                      r.store, called)
                          ELSE Done(JSON(StatusOK, "Subscription plan updated successfully",
                                         SubscriptionPlanResponse(r.val, features)),
                                    r.store, called \o <<EvRespond>>)

\* ------------------------------------------------------------- requests
NoBody == [kind |-> "none", status |-> "", plan |-> 0, price |-> 0, setFeatures |-> FALSE]
Malformed == [kind |-> "malformed", status |-> "", plan |-> 0, price |-> 0,
              setFeatures |-> FALSE]
\* validation.UpdateSubscription: a status and a plan, each optional.
UpdateSubscriptionBodies ==
  {Malformed} \cup
  {[kind |-> "json", status |-> s, plan |-> p, price |-> 0, setFeatures |-> FALSE] :
     s \in {"", "active"}, p \in {0} \cup PlanIds \cup {MaxIds + 1}}
\* validation.UpdatePaymentStatus: a status.
UpdatePaymentStatusBodies ==
  {Malformed} \cup
  {[kind |-> "json", status |-> s, plan |-> 0, price |-> 0, setFeatures |-> FALSE] :
     s \in Statuses}
\* validation.UpdateSubscriptionPlan: a price and the feature flags, each optional.
UpdateSubscriptionPlanBodies ==
  {Malformed} \cup
  {[kind |-> "json", status |-> "", plan |-> 0, price |-> pr, setFeatures |-> f] :
     pr \in {0, 75000}, f \in BOOLEAN}

Absent == [kind |-> "absent", v |-> 0]
NotInt == [kind |-> "notint", v |-> 0]
PageQueries == {Absent, NotInt} \cup [kind : {"int"}, v : 1..MaxPage]
LimitQueries == {Absent, NotInt} \cup [kind : {"int"}, v : (-MaxLimit)..MaxLimit]
StatusQueries == {"", "active"}

NoUser == [kind |-> "nil", id |-> ""]
Users == {NoUser, [kind |-> "user", id |-> "admin-1"]}

Ctx(id, body, page, limit, status, withUsers, user) ==
  [id |-> id, body |-> body, page |-> page, limit |-> limit, status |-> status,
   withUsers |-> withUsers, user |-> user]
CtxId(id) == Ctx(id, NoBody, Absent, Absent, "", FALSE, NoUser)
CtxBody(id, body) == Ctx(id, body, Absent, Absent, "", FALSE, NoUser)

\* ------------------------------------------------------- initial state
\* Subscriptions and transactions 1..MaxIds exist; UUID MaxIds+1 is stored
\* nowhere.  The one plan's feature text is any text the column can hold.
InitSub == [present |-> TRUE, status |-> "pending", plan |-> 1]
InitTx(k) == [present |-> TRUE, sub |-> k, amount |-> 50000]
InitPlan(text) ==
  [present |-> TRUE, name |-> "Basic", price |-> 50000, features |-> text,
   isActive |-> TRUE]
InitStore(text) ==
  [subs |-> [k \in UUIDs |-> IF k \in StoredIds THEN InitSub ELSE NoSub],
   plans |-> [k \in UUIDs |-> IF k \in PlanIds THEN InitPlan(text) ELSE NoPlan],
   txs |-> [k \in UUIDs |-> IF k \in StoredIds THEN InitTx(k) ELSE NoTx]]

NoRequest ==
  [op |-> "none", ctx |-> CtxId(NoParam),
   resp |-> [kind |-> "none", status |-> 0, envelope |-> "", message |-> "",
             data |-> <<>>, page |-> 0, limit |-> 0, totalPages |-> 0,
             totalResults |-> 0],
   trace |-> <<>>]
NoPaid == [id |-> 0, status |-> ""]

Init ==
  /\ \E text \in FeatureTexts : store = InitStore(text)
  /\ pre = store
  /\ last = NoRequest
  /\ deleted = {}
  /\ paid = NoPaid

\* -------------------------------------------------------------- actions
\* One request served from arrival to response; last holds it until the
\* response is delivered (Finish).  deleted and paid are history variables:
\* they record what the responses told the client.
Serve(op, c, out) ==
  LET id == uuidParse(c.id).id
      ok == out.resp.kind = "json" /\ out.resp.status = StatusOK
  IN /\ last.op = "none"
     /\ pre' = store
     /\ store' = out.store
     /\ last' = [op |-> op, ctx |-> c, resp |-> out.resp, trace |-> out.trace]
     /\ deleted' = IF op = "DeleteUserSubscription" /\ ok
                     THEN deleted \cup {id} ELSE deleted
     /\ paid' = IF op = "UpdatePaymentStatus" /\ ok
                  THEN [id |-> id, status |-> c.body.status]
                ELSE IF op \in {"UpdateUserSubscription", "DeleteUserSubscription"}
                        /\ ok /\ id = paid.id
                  THEN NoPaid
                ELSE paid

DoGetAllUserSubscriptions ==
  \E page \in PageQueries, limit \in LimitQueries, status \in StatusQueries :
    LET c == Ctx(NoParam, NoBody, page, limit, status, FALSE, NoUser)
    IN Serve("GetAllUserSubscriptions", c, GetAllUserSubscriptions(store, c))

DoGetUserSubscriptionDetails ==
  \E id \in Params :
    Serve("GetUserSubscriptionDetails", CtxId(id),
          GetUserSubscriptionDetails(store, CtxId(id)))

DoGetAllSubscriptionPlans ==
  \E withUsers \in BOOLEAN :
    LET c == Ctx(NoParam, NoBody, Absent, Absent, "", withUsers, NoUser)
    IN Serve("GetAllSubscriptionPlans", c, GetAllSubscriptionPlans(store, c))

DoUpdateUserSubscription ==
  \E id \in Params, body \in UpdateSubscriptionBodies :
    Serve("UpdateUserSubscription", CtxBody(id, body),
          UpdateUserSubscription(store, CtxBody(id, body)))

DoDeleteUserSubscription ==
  \E id \in Params :
    Serve("DeleteUserSubscription", CtxId(id), DeleteUserSubscription(store, CtxId(id)))

DoGetTransactionLogs ==
  \E id \in Params :
    Serve("GetTransactionLogs", CtxId(id), GetTransactionLogs(store, CtxId(id)))

DoUpdatePaymentStatus ==
  \E id \in Params, body \in UpdatePaymentStatusBodies, user \in Users :
    LET c == Ctx(id, body, Absent, Absent, "", FALSE, user)
    IN Serve("UpdatePaymentStatus", c, UpdatePaymentStatus(store, c))

DoGetAllTransactions ==
  \E page \in PageQueries, limit \in LimitQueries :
    LET c == Ctx(NoParam, NoBody, page, limit, "", FALSE, NoUser)
    IN Serve("GetAllTransactions", c, GetAllTransactions(store, c))

DoGetTransactionByID ==
  \E id \in Params :
    Serve("GetTransactionByID", CtxId(id), GetTransactionByID(store, CtxId(id)))

DoGetSubscriptionPlanByID ==
  \E id \in Params :
    Serve("GetSubscriptionPlanByID", CtxId(id), GetSubscriptionPlanByID(store, CtxId(id)))

DoUpdateSubscriptionPlan ==
  \E id \in Params, body \in UpdateSubscriptionPlanBodies :
    Serve("UpdateSubscriptionPlan", CtxBody(id, body),
          UpdateSubscriptionPlan(store, CtxBody(id, body)))

\* The response has been delivered: the handler's record of the request is gone.
Finish ==
  /\ last.op # "none"
  /\ last' = NoRequest
  /\ pre' = store
  /\ UNCHANGED <<store, deleted, paid>>

Next ==
  \/ Finish
  \/ DoGetAllUserSubscriptions
  \/ DoGetUserSubscriptionDetails
  \/ DoGetAllSubscriptionPlans
  \/ DoUpdateUserSubscription
  \/ DoDeleteUserSubscription
  \/ DoGetTransactionLogs
  \/ DoUpdatePaymentStatus
  \/ DoGetAllTransactions
  \/ DoGetTransactionByID
  \/ DoGetSubscriptionPlanByID
  \/ DoUpdateSubscriptionPlan

Spec == Init /\ [][Next]_vars

\* ======================================================== properties
\* What the formulas below read off the last request.
Served == last.op # "none"
IdOps ==
  {"GetUserSubscriptionDetails", "UpdateUserSubscription", "DeleteUserSubscription",
   "GetTransactionLogs", "UpdatePaymentStatus", "GetTransactionByID",
   "GetSubscriptionPlanByID", "UpdateSubscriptionPlan"}
BodyOps == {"UpdateUserSubscription", "UpdatePaymentStatus", "UpdateSubscriptionPlan"}
ListOps == {"GetAllUserSubscriptions", "GetAllTransactions"}
IdNoun(op) ==
  CASE op = "GetTransactionByID" -> "transaction"
    [] op \in {"GetSubscriptionPlanByID", "UpdateSubscriptionPlan"} -> "plan"
    [] OTHER -> "subscription"
RequiredMessage(op) ==
  CASE IdNoun(op) = "transaction" -> "Transaction ID is required"
    [] IdNoun(op) = "plan" -> "Plan ID is required"
    [] OTHER -> "Subscription ID is required"
InvalidFormatMessage(op) ==
  CASE IdNoun(op) = "transaction" -> "Invalid transaction ID format"
    [] IdNoun(op) = "plan" -> "Invalid plan ID format"
    [] OTHER -> "Invalid subscription ID format"
IsError(code, message) ==
  last.resp.kind = "error" /\ last.resp.status = code /\ last.resp.message = message
IsSuccess ==
  last.resp.kind = "json" /\ last.resp.status = 200 /\ last.resp.envelope = "success"
IdGiven == last.ctx.id.form \in {"canonical", "urn"}
ServiceCalls == {i \in 1..Len(last.trace) : last.trace[i].ev = "service"}
LogCalls == {i \in 1..Len(last.trace) : last.trace[i].ev = "log"}

\* C1: on every endpoint that takes a UUID path parameter, a non-empty value
\* that is not a parseable UUID is answered 400 "Invalid ... ID format",
\* whatever the body and the store.
C1_MalformedUUIDRejected ==
  (last.op \in IdOps /\ last.ctx.id.form \in {"garbage", "badhex"})
    => IsError(400, InvalidFormatMessage(last.op))

C1_Witness ==
  /\ last.op = "UpdateSubscriptionPlan"
  /\ last.ctx.id.form = "badhex"
  /\ last.ctx.body.kind = "malformed"
  /\ IsError(400, "Invalid plan ID format")

\* C2: a successful paginated list echoes page and limit (1 and 10 when the
\* query parameters are absent), reports the service's count as totalResults
\* and totalPages = totalResults / limit + 1, the division truncating toward
\* zero.
C2_Count ==
  IF last.op = "GetAllTransactions"
    THEN Cardinality({k \in UUIDs : pre.txs[k].present})
    ELSE Cardinality({k \in UUIDs : pre.subs[k].present
                        /\ (last.ctx.status = "" \/ pre.subs[k].status = last.ctx.status)})
C2_PaginationEnvelope ==
  (last.op \in ListOps /\ IsSuccess) =>
    LET l == last.resp.limit
        q == last.resp.totalPages - 1
        r == last.resp.totalResults - q * l
    IN /\ (last.ctx.page.kind = "int" => last.resp.page = last.ctx.page.v)
       /\ (last.ctx.page.kind = "absent" => last.resp.page = 1)
       /\ (last.ctx.limit.kind = "int" => l = last.ctx.limit.v)
       /\ (last.ctx.limit.kind = "absent" => l = 10)
       /\ last.resp.totalResults = C2_Count
       /\ 0 <= r
       /\ (r < l \/ r < -l)

C2_Witness ==
  /\ last.op = "GetAllUserSubscriptions"
  /\ IsSuccess
  /\ last.resp.totalResults = 1
  /\ last.resp.limit = -2
  /\ last.resp.totalPages = 1

\* C3: the records of a paginated list response number at most the requested
\* limit.
C3_AtMostLimitRecords ==
  (last.op \in ListOps /\ IsSuccess) => Len(last.resp.data) <= last.resp.limit

\* C4: a successful payment-status update with status s changes only the
\* status field of the subscription it names, and a later GET of that
\* subscription, with no write to it in between, returns it with status s.
C4_PaymentStatusOnlyStatus ==
  /\ (last.op = "UpdatePaymentStatus" /\ IsSuccess) =>
       LET id == last.ctx.id.key
           s == last.ctx.body.status
       IN /\ pre.subs[id].present
          /\ store.subs[id] = [pre.subs[id] EXCEPT !.status = s]
          /\ \A k \in UUIDs \ {id} : store.subs[k] = pre.subs[k]
          /\ store.plans = pre.plans
          /\ store.txs = pre.txs
  /\ (last.op = "GetUserSubscriptionDetails" /\ IdGiven /\ paid.id # 0
        /\ last.ctx.id.key = paid.id) =>
       /\ IsSuccess
       /\ last.resp.data.id = paid.id
       /\ last.resp.data.status = paid.status

C4_Witness ==
  /\ last.op = "GetUserSubscriptionDetails"
  /\ IsSuccess
  /\ paid = [id |-> 2, status |-> "active"]
  /\ last.ctx.id = [form |-> "urn", key |-> 2]
  /\ last.resp.data.status = "active"
  /\ store.subs[1].status = "pending"

\* C5: once a DELETE of a subscription was answered 200, every later GET of
\* that subscription is answered 404.
C5_DeletedStaysNotFound ==
  (last.op = "GetUserSubscriptionDetails" /\ IdGiven /\ last.ctx.id.key \in deleted)
    => (last.resp.kind = "error" /\ last.resp.status = 404)

C5_Witness ==
  /\ last.op = "GetUserSubscriptionDetails"
  /\ last.ctx.id = [form |-> "canonical", key |-> 1]
  /\ deleted = {1}
  /\ last.resp.status = 404
  /\ store.subs[2].present

\* C6 as stated: every GET-by-id endpoint answers 200 "success" with the
\* record's fields for a valid UUID of an existing record.
C6_RecordFields ==
  LET id == last.ctx.id.key
  IN CASE last.op = "GetUserSubscriptionDetails" ->
            last.resp.data = [id |-> id, status |-> pre.subs[id].status,
                              plan |-> pre.subs[id].plan]
       [] last.op = "GetTransactionByID" ->
            last.resp.data = [id |-> id, sub |-> pre.txs[id].sub,
                              amount |-> pre.txs[id].amount]
       [] OTHER ->
            /\ last.resp.data.ID = [form |-> "canonical", key |-> id]
            /\ last.resp.data.Name = pre.plans[id].name
            /\ last.resp.data.Price = pre.plans[id].price
            /\ last.resp.data.IsActive = pre.plans[id].isActive
            /\ last.resp.data.PriceFormatted =
                 (IF pre.plans[id].price = 50000 THEN "Rp 50000" ELSE "Rp 75000")
            /\ last.resp.data.Features =
                 (CASE pre.plans[id].features = "{\"scan\":true}" ->
                         [isNil |-> FALSE, entries |-> {<<"scan", TRUE>>}]
                    [] pre.plans[id].features = "{\"scan\":null}" ->
                         [isNil |-> FALSE, entries |-> {<<"scan", FALSE>>}]
                    [] OTHER -> [isNil |-> TRUE, entries |-> {}])
C6_Existing ==
  /\ IdGiven
  /\ \/ last.op = "GetUserSubscriptionDetails" /\ pre.subs[last.ctx.id.key].present
     \/ last.op = "GetTransactionByID" /\ pre.txs[last.ctx.id.key].present
     \/ last.op = "GetSubscriptionPlanByID" /\ pre.plans[last.ctx.id.key].present
C6_GetExistingAlways200 ==
  C6_Existing => (IsSuccess /\ C6_RecordFields)

\* C6 as amended: ... except that the plan endpoint answers 500 "Error parsing
\* plan features" when the stored feature text does not unmarshal into a map
\* of booleans.
C6_FeaturesUnreadable ==
  /\ last.op = "GetSubscriptionPlanByID"
  /\ pre.plans[last.ctx.id.key].features \in {"{\"scan\":1}", "{scan"}
C6_GetExistingReturnsRecord ==
  C6_Existing =>
    IF C6_FeaturesUnreadable
      THEN IsError(500, "Error parsing plan features")
      ELSE IsSuccess /\ C6_RecordFields

C6_Witness ==
  /\ last.op = "GetSubscriptionPlanByID"
  /\ last.ctx.id = [form |-> "urn", key |-> 1]
  /\ IsSuccess
  /\ last.resp.data.PriceFormatted = "Rp 75000"
  /\ last.resp.data.Features.entries = {<<"scan", FALSE>>}

\* C7: every request ends in one documented outcome: 400 for a missing or
\* malformed identifier or an unparseable body, the service's 404 for a
\* missing record, 500 when the plan's stored feature flags are not a JSON
\* object of booleans, and 200 with a success envelope otherwise.
C7_BadInput ==
  \/ last.op \in IdOps /\ ~IdGiven
  \/ last.op \in BodyOps /\ last.ctx.body.kind = "malformed"
C7_Missing ==
  LET id == last.ctx.id.key
  IN /\ last.op \in IdOps
     /\ \/ IdNoun(last.op) = "subscription" /\ ~pre.subs[id].present
        \/ IdNoun(last.op) = "transaction" /\ ~pre.txs[id].present
        \/ IdNoun(last.op) = "plan" /\ ~pre.plans[id].present
        \/ /\ last.op = "UpdateUserSubscription"
           /\ last.ctx.body.plan # 0
           /\ ~pre.plans[last.ctx.body.plan].present
C7_FeaturesInvalid ==
  /\ last.op \in {"GetSubscriptionPlanByID", "UpdateSubscriptionPlan"}
  /\ store.plans[last.ctx.id.key].features # "{\"scan\":true}"
C7_DocumentedOutcomes ==
  Served =>
    IF C7_BadInput THEN last.resp.kind = "error" /\ last.resp.status = 400
    ELSE IF C7_Missing THEN last.resp.kind = "error" /\ last.resp.status = 404
    ELSE IF C7_FeaturesInvalid THEN last.resp.kind = "error" /\ last.resp.status = 500
    ELSE IsSuccess

\* C8: a request answered with an error leaves subscriptions, plans and
\* transactions as they were.
C8_ErrorLeavesStoreUnchanged ==
  (Served /\ last.resp.kind = "error") => store = pre

\* C9: the identifier is checked first (empty, then unparseable), then the
\* body is parsed, and only then is the service called, at most once; a
\* request answered 400 has not called the service and has changed nothing.
C9_ValidationPrecedesDelegation ==
  Served =>
    /\ (last.op \in IdOps /\ last.ctx.id.form = "empty")
         => IsError(400, RequiredMessage(last.op))
    /\ (last.op \in IdOps /\ last.ctx.id.form \in {"garbage", "badhex"})
         => IsError(400, InvalidFormatMessage(last.op))
    /\ (last.op \in BodyOps /\ IdGiven /\ last.ctx.body.kind = "malformed")
         => IsError(400, "Invalid request body")
    /\ Cardinality(ServiceCalls) <= 1
    /\ (ServiceCalls # {}) =>
         /\ last.op \in IdOps => IdGiven
         /\ last.op \in BodyOps => last.ctx.body.kind = "json"
         /\ 1 \in ServiceCalls
    /\ (last.resp.status = 400) => (ServiceCalls = {} /\ store = pre)

C9_Witness ==
  /\ last.op = "UpdatePaymentStatus"
  /\ last.ctx.id = [form |-> "canonical", key |-> 1]
  /\ last.ctx.body.kind = "malformed"
  /\ IsError(400, "Invalid request body")
  /\ last.trace = <<>>
  /\ pre.subs[1].present

\* C10: UpdatePaymentStatus records the "update_payment_status" activity
\* exactly once when the service update succeeded, after the update and before
\* the 200 response, with the subscription's id as ResourceID and the
\* requested status in the details; otherwise it records none.
C10_ActivityLoggedOnce ==
  (last.op = "UpdatePaymentStatus") =>
    IF IdGiven /\ last.ctx.body.kind = "json" /\ pre.subs[last.ctx.id.key].present
      THEN /\ IsSuccess
           /\ Len(last.trace) = 3
           /\ last.trace[1].ev = "service"
           /\ last.trace[1].name = "UpdatePaymentStatus"
           /\ last.trace[2].ev = "log"
           /\ last.trace[2].name = "update_payment_status"
           /\ last.trace[2].resourceID = [form |-> "canonical", key |-> last.ctx.id.key]
           /\ last.trace[2].status = last.ctx.body.status
           /\ last.trace[3].ev = "respond"
      ELSE /\ LogCalls = {}
           /\ last.resp.kind = "error"

C10_Witness ==
  /\ last.op = "UpdatePaymentStatus"
  /\ last.ctx.id = [form |-> "urn", key |-> 2]
  /\ IsSuccess
  /\ Cardinality(LogCalls) = 1
  /\ last.trace[2].resourceID = [form |-> "canonical", key |-> 2]
  /\ last.trace[2].userID = "admin-1"

\* C11: whatever integer the limit query parameter holds, 0 and negative
\* values included, a paginated list request completes with a response (the
\* success envelope or the service's error): the page count is computed
\* without dividing by zero and is at least 1.
C11_ListAlwaysResponds ==
  (last.op \in ListOps /\ last.ctx.limit.kind = "int") =>
    /\ last.resp.kind \in {"json", "error"}
    /\ IsSuccess => last.resp.totalPages >= 1

====
